---------------------------- MODULE Spec2Model ----------------------------
(***************************************************************************)
(* A model of the scribe strip-analysis scripts:                           *)
(*   process_slices.py               correlator and first peak detector    *)
(*   process_correlation_results.py  peak detector and aggregator          *)
(*   overlay.py                      shift estimator and overlay mapper    *)
(* Each script is a sequential program; one specification per script       *)
(* stage explores it over bounded inputs.                                  *)
(*                                                                         *)
(* Numbers.  The code computes in IEEE doubles; the model computes in      *)
(* exact integers.  A correlation score is kept multiplied by N*W          *)
(* (reference length times profile length), which turns                    *)
(* (R[j] - mean R) * (v - mean P) into (N*R[j] - sum R) * (W*v - sum P).   *)
(***************************************************************************)
EXTENDS Integers, Sequences, FiniteSets, TLC

VARIABLES
    \* ---- calculate_correlation_results (process_slices.py) ----
    column_averages,          \* the column profile P (a Python list)
    json_values,              \* the reference vector R
    corr_i,                   \* the outer loop's offset i
    correlation_results,      \* the list being built
    out_of_bounds_instances,  \* the set of offsets that hit an IndexError
    corr_pc,                  \* "idle" | "loop" | "returned"
    corr_ret,                 \* the returned pair
    \* ---- find_peaks_in_correlation (both scripts) ----
    pk_impl,                  \* which script's copy runs
    pk_input,                 \* the correlation sequence passed in
    smoothed,                 \* gaussian_filter1d's output
    peaks,                    \* find_peaks' output (ascending indices)
    sorted_peaks,             \* peaks by smoothed value, descending
    pk_pc,                    \* "idle" | "smooth" | "find" | "sort" | "select" | "returned"
    pk_ret,                   \* the returned (peaks, message)
    \* ---- process_correlation_results (process_correlation_results.py) ----
    ag_files,                 \* strip index -> its correlation_results.txt, or Missing
    slice_folders,            \* the folders in os.listdir's order (strip indices)
    ag_pos,                   \* how many folders the loop has visited
    peak_indices_1, peak_indices_2, peak_values_1, peak_values_2,
    table_rows,
    peaks_txt,                \* strip index -> the peaks.txt written, or Missing
    csv,                      \* the rows written to peaks_and_statistics.csv
    ag_log,                   \* the warnings logged
    ag_pc,                    \* "idle" | "loop" | "done" | "raised"
    \* ---- overlay_peaks_on_images (overlay.py) ----
    ov_num_keys,              \* len(data) of the reference mapping
    ov_width,                 \* the strips' width in pixels
    ov_peaks_files,           \* strip index -> its peaks.txt, or Missing
    slice_files,              \* the sorted slice files (strip indices)
    ov_pos,                   \* how many slice files the loop has finished
    shift,
    overlays,                 \* strip index -> the overlay image saved, if any
    ov_log,                   \* the warnings logged
    ov_pc,                    \* "idle" | "start" | "loop" | "done" | "raised"
    \* ---- process_folder and validate_and_process_json (process_slices.py) ----
    ref_data,                 \* json.load's mapping: its (key, value) items in order
    ref_pos,                  \* items validate_and_process_json has passed
    correlation_data,         \* what validate_and_process_json returned, if it did
    pf_files,                 \* the number of .bmp files to process
    pf_done,                  \* strips processed so far
    pf_outputs,               \* the per-strip files written: <<strip, name>>
    pf_pc,                    \* "idle" | "validate" | "raised" | "strips" | "done"
    \* ---- slice_image (slice_image.py) ----
    img_width, img_height,    \* img.size
    height,                   \* the strip height asked for
    top,                      \* the loop variable of range(0, img_height, height)
    slice_count,
    slices,                   \* strip number -> the box saved as slice_<number>.bmp
    sl_pc,                    \* "idle" | "loop" | "returned"
    sl_ret                    \* the returned slice_count and total_pixels

corrVars == <<column_averages, json_values, corr_i, correlation_results,
              out_of_bounds_instances, corr_pc, corr_ret>>

peakVars == <<pk_impl, pk_input, smoothed, peaks, sorted_peaks, pk_pc, pk_ret>>

aggVars == <<ag_files, slice_folders, ag_pos, peak_indices_1, peak_indices_2,
             peak_values_1, peak_values_2, table_rows, peaks_txt, csv, ag_log, ag_pc>>

ovVars == <<ov_num_keys, ov_width, ov_peaks_files, slice_files, ov_pos, shift,
            overlays, ov_log, ov_pc>>

refVars == <<ref_data, ref_pos, correlation_data, pf_files, pf_done, pf_outputs, pf_pc>>

sliceVars == <<img_width, img_height, height, top, slice_count, slices, sl_pc, sl_ret>>

vars == <<corrVars, peakVars, aggVars, ovVars, refVars, sliceVars>>

\* What a run of one script leaves alone: the other scripts' state.
notCorr == <<peakVars, aggVars, ovVars, refVars, sliceVars>>
notPeak == <<corrVars, aggVars, ovVars, refVars, sliceVars>>
notAgg == <<corrVars, peakVars, ovVars, refVars, sliceVars>>
notOv == <<corrVars, peakVars, aggVars, refVars, sliceVars>>
notRef == <<corrVars, peakVars, aggVars, ovVars, sliceVars>>
notSlice == <<corrVars, peakVars, aggVars, ovVars, refVars>>

-----------------------------------------------------------------------------
(* Bounds of the explored inputs. *)
MaxW == 5
MaxN == 3
MaxVal == 1
CorrLen == 18      \* length of the correlation sequences given to the detector
SpikeGap == 3      \* their non-zero entries sit SpikeGap apart
MaxHeight == 2     \* and are at most this high
MaxStrips == 3     \* strips (folders) in a batch
MaxRefLen == 9     \* entries of the reference mapping the overlay reads
MaxEntries == 2    \* entries of the reference mapping being validated
MaxImgHeight == 9  \* rows of the image being sliced
MaxImgWidth == 2   \* its columns
MaxSliceHeight == 4 \* the strip height asked for

-----------------------------------------------------------------------------
(* Helpers. *)
RECURSIVE SumSeq(_)
SumSeq(s) == IF s = <<>> THEN 0 ELSE Head(s) + SumSeq(Tail(s))

SeqsUpTo(S, n) == UNION {[1..k -> S] : k \in 0..n}

NoReturn == [results |-> <<>>, count |-> -1]

-----------------------------------------------------------------------------
(* calculate_correlation_results, process_slices.py lines 72-96. *)

\* lines 84-88: column_averages[i + j], with the IndexError handler.  k = i + j
\* is never negative, so Python's negative indexing does not come into play.
ImageValueClamped(P, k) ==
    IF k < Len(P) THEN [value |-> P[k + 1], oob |-> FALSE]
    ELSE [value |-> IF Len(P) = 0 THEN 0 ELSE P[Len(P)], oob |-> TRUE]

ImageValue(P, k) ==
    IF k < Len(P) THEN [value |-> P[k + 1], oob |-> FALSE]
    ELSE [value |-> 0, oob |-> TRUE]

\* lines 81-91: the inner loop over j for one offset i; returns the score
\* (times N*W) and out_of_bounds_encountered.
RECURSIVE InnerLoop(_, _, _, _, _, _)
InnerLoop(R, P, i, j, acc, oob) ==
    IF j >= Len(R) THEN [result |-> acc, oob |-> oob]
    ELSE LET iv == ImageValue(P, i + j)
         IN  InnerLoop(R, P, i, j + 1,
                       acc + (Len(R) * R[j + 1] - SumSeq(R))
                             * (Len(P) * iv.value - SumSeq(P)),
                       oob \/ iv.oob)

\* lines 93-94
AddInstanceAlways(S, i, oob) == S \cup {i}

AddInstance(S, i, oob) == IF oob THEN S \cup {i} ELSE S

CorrIdle ==
    /\ column_averages = <<>>
    /\ json_values = <<>>
    /\ corr_i = 0
    /\ correlation_results = <<>>
    /\ out_of_bounds_instances = {}
    /\ corr_pc = "idle"
    /\ corr_ret = NoReturn

\* lines 73-78: the state on entry to the outer loop
CorrInit ==
    /\ column_averages \in SeqsUpTo(0..MaxVal, MaxW)
    /\ json_values \in SeqsUpTo(0..MaxVal, MaxN)
    /\ corr_i = 0
    /\ correlation_results = <<>>
    /\ out_of_bounds_instances = {}
    /\ corr_pc = "loop"
    /\ corr_ret = NoReturn

\* lines 80-94: one iteration of the outer loop
CorrOffset ==
    /\ corr_pc = "loop"
    /\ corr_i < Len(column_averages)
    /\ LET r == InnerLoop(json_values, column_averages, corr_i, 0, 0, FALSE)
       IN  /\ correlation_results' = Append(correlation_results, r.result)
           /\ out_of_bounds_instances' =
                  AddInstance(out_of_bounds_instances, corr_i, r.oob)
    /\ corr_i' = corr_i + 1
    /\ UNCHANGED <<column_averages, json_values, corr_pc, corr_ret>>
    /\ UNCHANGED notCorr

\* line 96
CorrReturn ==
    /\ corr_pc = "loop"
    /\ corr_i >= Len(column_averages)
    /\ corr_ret' = [results |-> correlation_results,
                    count |-> Cardinality(out_of_bounds_instances)]
    /\ corr_pc' = "returned"
    /\ UNCHANGED <<column_averages, json_values, corr_i, correlation_results,
                   out_of_bounds_instances>>
    /\ UNCHANGED notCorr


-----------------------------------------------------------------------------
(* find_peaks_in_correlation: process_slices.py lines 99-114 and           *)
(* process_correlation_results.py lines 33-48.                             *)

\* The sigma argument of gaussian_filter1d.
Sigma == 2

\* scipy truncates the kernel at 4 standard deviations: radius int(4*sigma + 0.5).
Radius == 4 * Sigma

\* exp(-k^2 / (2 sigma^2)) for k = 0..Radius, times 10^4 and rounded.  scipy
\* normalises the weights to sum 1; a common factor changes neither where the
\* maxima are nor their order.
GaussianKernel == <<10000, 8825, 6065, 3247, 1353, 439, 111, 22, 3>>

Abs(x) == IF x < 0 THEN -x ELSE x

\* gaussian_filter1d's default boundary mode "reflect": d c b a | a b c d | d c b a
\* (0-based index i into a sequence of length n > 0).
RECURSIVE Reflect(_, _)
Reflect(i, n) ==
    IF i < 0 THEN Reflect(-i - 1, n)
    ELSE IF i >= n THEN Reflect(2 * n - 1 - i, n)
    ELSE i

RECURSIVE KernelSum(_, _, _)
KernelSum(x, i, k) ==
    IF k > Radius THEN 0
    ELSE GaussianKernel[Abs(k) + 1] * x[Reflect(i + k, Len(x)) + 1]
         + KernelSum(x, i, k + 1)

gaussian_filter1d(x) == [i \in 1..Len(x) |-> KernelSum(x, i - 1, -Radius)]

\* scipy.signal.find_peaks with no conditions: every local maximum, a flat one
\* reported at the middle of its plateau; the first and last samples never are.
\* (scipy's _local_maxima_1d, 0-based i.)
RECURSIVE PlateauEnd(_, _, _)
PlateauEnd(x, i, ahead) ==
    IF ahead < Len(x) - 1 /\ x[ahead + 1] = x[i + 1]
    THEN PlateauEnd(x, i, ahead + 1)
    ELSE ahead

RECURSIVE LocalMaxima(_, _)
LocalMaxima(x, i) ==
    IF i >= Len(x) - 1 THEN <<>>
    ELSE IF x[i] < x[i + 1]
         THEN LET ahead == PlateauEnd(x, i, i + 1)
              IN  IF x[ahead + 1] < x[i + 1]
                  THEN <<(i + ahead - 1) \div 2>> \o LocalMaxima(x, ahead + 1)
                  ELSE LocalMaxima(x, i + 1)
         ELSE LocalMaxima(x, i + 1)

find_peaks(x) == LocalMaxima(x, 1)

\* sorted(peaks, key=lambda x: smoothed[x], reverse=True): a stable sort, so
\* peaks of equal height keep their index order.
RECURSIVE InsertDesc(_, _, _)
InsertDesc(s, e, sm) ==
    IF s = <<>> THEN <<e>>
    ELSE IF sm[Head(s) + 1] >= sm[e + 1]
         THEN <<Head(s)>> \o InsertDesc(Tail(s), e, sm)
         ELSE <<e>> \o s

RECURSIVE SortByHeight(_, _, _)
SortByHeight(done, rest, sm) ==
    IF rest = <<>> THEN done
    ELSE SortByHeight(InsertDesc(done, Head(rest), sm), Tail(rest), sm)

\* sorted(list of indices)
RECURSIVE InsertAsc(_, _)
InsertAsc(s, e) ==
    IF s = <<>> THEN <<e>>
    ELSE IF Head(s) <= e THEN <<Head(s)>> \o InsertAsc(Tail(s), e)
         ELSE <<e>> \o s

RECURSIVE sorted(_)
sorted(s) == IF s = <<>> THEN <<>> ELSE InsertAsc(sorted(Tail(s)), Head(s))

MoreThanTwo == "More than 2 peaks found: "
LessThanTwo == "Less than 2 peaks found."
ExactlyTwo == "Two peaks found."

Message(text, listed) == [text |-> text, listed |-> listed]

\* process_slices.py lines 109-114
ps_select(sp) ==
    IF Len(sp) > 2 THEN [peaks |-> SubSeq(sp, 1, 2), message |-> Message(MoreThanTwo, sp)]
    ELSE IF Len(sp) < 2 THEN [peaks |-> sp, message |-> Message(LessThanTwo, <<>>)]
    ELSE [peaks |-> sp, message |-> Message(ExactlyTwo, <<>>)]

\* process_correlation_results.py lines 43-48
pcr_select_off_by_one(sp) ==
    IF Len(sp) >= 2
    THEN [peaks |-> sorted(SubSeq(sp, 1, 2)), message |-> Message(MoreThanTwo, sp)]
    ELSE IF Len(sp) < 2 THEN [peaks |-> sp, message |-> Message(LessThanTwo, <<>>)]
    ELSE [peaks |-> sorted(sp), message |-> Message(ExactlyTwo, <<>>)]

pcr_select(sp) ==
    IF Len(sp) > 2
    THEN [peaks |-> sorted(SubSeq(sp, 1, 2)), message |-> Message(MoreThanTwo, sp)]
    ELSE IF Len(sp) < 2 THEN [peaks |-> sp, message |-> Message(LessThanTwo, <<>>)]
    ELSE [peaks |-> sorted(sp), message |-> Message(ExactlyTwo, <<>>)]

\* The whole function, process_correlation_results.py lines 33-48.  (The
\* one-element sets bind each intermediate value once it is computed.)
pcr_find_peaks_in_correlation(c) ==
    CHOOSE r \in {pcr_select(SortByHeight(<<>>, find_peaks(sm), sm)) :
                     sm \in {gaussian_filter1d(x) : x \in {c}}} : TRUE

\* The whole function, process_slices.py lines 99-114.
ps_find_peaks_in_correlation(c) ==
    CHOOSE r \in {ps_select(SortByHeight(<<>>, find_peaks(sm), sm)) :
                     sm \in {gaussian_filter1d(x) : x \in {c}}} : TRUE

\* The correlation sequences explored: zero except at the slots 1, 1+SpikeGap,
\* 1+2*SpikeGap, ... (0-based), where h gives the height.
NumSlots == (CorrLen + SpikeGap - 2) \div SpikeGap

Spikes(h) ==
    [p \in 1..CorrLen |->
        IF (p - 1) % SpikeGap = 1 /\ ((p - 1) \div SpikeGap) + 1 <= Len(h)
        THEN h[((p - 1) \div SpikeGap) + 1] ELSE 0]

CorrInputs == {Spikes(h) : h \in [1..NumSlots -> 0..MaxHeight]}

NoPeaksReturn == [peaks |-> <<>>, message |-> Message("", <<>>)]

PeakIdle ==
    /\ pk_impl = "none"
    /\ pk_input = <<>>
    /\ smoothed = <<>>
    /\ peaks = <<>>
    /\ sorted_peaks = <<>>
    /\ pk_pc = "idle"
    /\ pk_ret = NoPeaksReturn

PeakInit ==
    /\ pk_impl \in {"process_slices", "process_correlation_results"}
    /\ pk_input \in CorrInputs
    /\ smoothed = <<>>
    /\ peaks = <<>>
    /\ sorted_peaks = <<>>
    /\ pk_pc = "smooth"
    /\ pk_ret = NoPeaksReturn

\* line 101 / 35
PeakSmooth ==
    /\ pk_pc = "smooth"
    /\ smoothed' = gaussian_filter1d(pk_input)
    /\ pk_pc' = "find"
    /\ UNCHANGED <<pk_impl, pk_input, peaks, sorted_peaks, pk_ret>>
    /\ UNCHANGED notPeak

\* line 104 / 38
PeakFind ==
    /\ pk_pc = "find"
    /\ peaks' = find_peaks(smoothed)
    /\ pk_pc' = "sort"
    /\ UNCHANGED <<pk_impl, pk_input, smoothed, sorted_peaks, pk_ret>>
    /\ UNCHANGED notPeak

\* line 107 / 41
PeakSort ==
    /\ pk_pc = "sort"
    /\ sorted_peaks' = SortByHeight(<<>>, peaks, smoothed)
    /\ pk_pc' = "select"
    /\ UNCHANGED <<pk_impl, pk_input, smoothed, peaks, pk_ret>>
    /\ UNCHANGED notPeak

\* process_slices.py lines 109-114
PeakSelect_ps ==
    /\ pk_pc = "select"
    /\ pk_impl = "process_slices"
    /\ pk_ret' = ps_select(sorted_peaks)
    /\ pk_pc' = "returned"
    /\ UNCHANGED <<pk_impl, pk_input, smoothed, peaks, sorted_peaks>>
    /\ UNCHANGED notPeak

\* process_correlation_results.py lines 43-48
PeakSelect_pcr ==
    /\ pk_pc = "select"
    /\ pk_impl = "process_correlation_results"
    /\ pk_ret' = pcr_select(sorted_peaks)
    /\ pk_pc' = "returned"
    /\ UNCHANGED <<pk_impl, pk_input, smoothed, peaks, sorted_peaks>>
    /\ UNCHANGED notPeak

-----------------------------------------------------------------------------
(* Text files.  A line is kept as the pieces line.split(": ") gives: its    *)
(* head and the fields after each ": ".                                    *)
Missing == [exists |-> FALSE, lines |-> <<>>]
File(lines) == [exists |-> TRUE, lines |-> lines]

\* Python's None and a present value.
None == <<>>
Some(x) == <<x>>

Line(head, fields) == [head |-> head, fields |-> fields]

\* correlation_results.txt as process_folder writes it, process_slices.py
\* lines 169-176.  The head of a result line is "Correlation Result <idx>"; the
\* title line is "Correlation Results" (rest -1 stands for text that is no index).
ResultHead(idx) == [starts |-> "Correlation Result", rest |-> idx]

CorrelationResultsFile(c, out_of_bounds_count) ==
    File(<<Line([starts |-> "Correlation Result", rest |-> -1], <<>>),
           Line([starts |-> "==================", rest |-> -1], <<>>),
           Line([starts |-> "", rest |-> -1], <<>>)>>
         \o [k \in 1..Len(c) |-> Line(ResultHead(k - 1), <<c[k]>>)]
         \o <<Line([starts |-> "", rest |-> -1], <<>>),
              Line([starts |-> "Out of bounds instances (deduped by correlation result)",
                    rest |-> -1], <<out_of_bounds_count>>)>>)

\* read_correlation_results, process_correlation_results.py lines 16-30: the
\* lines that start with "Correlation Result" and have a field after ": "
\* (the title line starts so too; its IndexError is caught and it is skipped).
RECURSIVE read_correlation_results(_)
read_correlation_results(lines) ==
    IF lines = <<>> THEN <<>>
    ELSE LET l == Head(lines)
             rest == read_correlation_results(Tail(lines))
         IN  IF l.head.starts = "Correlation Result" /\ Len(l.fields) >= 1
             THEN <<l.fields[1]>> \o rest
             ELSE rest

DigitChars == {"0", "1", "2", "3", "4", "5", "6", "7", "8", "9"}

\* str() of a list of indices: "[5, 8]", one character per element.
RECURSIVE Digits(_)
Digits(n) ==
    IF n < 10 THEN <<<<"0", "1", "2", "3", "4", "5", "6", "7", "8", "9">>[n + 1]>>
    ELSE Digits(n \div 10) \o Digits(n % 10)

RECURSIVE JoinItems(_)
JoinItems(xs) ==
    IF xs = <<>> THEN <<>>
    ELSE IF Len(xs) = 1 THEN Digits(xs[1])
    ELSE Digits(xs[1]) \o <<",", " ">> \o JoinItems(Tail(xs))

StrList(xs) == <<"[">> \o JoinItems(xs) \o <<"]">>

\* peaks.txt, process_slices.py lines 181-185 and
\* process_correlation_results.py lines 119-123; lines end in "\n".
PeaksFile(pk, message) ==
    File(<<Line("Peaks in Correlation Results", <<>>),
           Line("============================", <<>>),
           Line("", <<>>),
           Line("Peaks at indices", <<StrList(pk) \o <<"\n">> >>),
           Line("Message", <<message>>)>>)

-----------------------------------------------------------------------------
(* process_correlation_results, process_correlation_results.py lines 73-154 *)

\* statistics.stdev: raises StatisticsError below two data points; otherwise
\* the sample variance (the square of the value returned) as a fraction.
stdev(xs) ==
    IF Len(xs) < 2 THEN [raises |-> TRUE, num |-> 0, den |-> 0]
    ELSE LET n == Len(xs)
             sq == [k \in 1..n |-> xs[k] * xs[k]]
         IN  [raises |-> FALSE,
              num |-> n * SumSeq(sq) - SumSeq(xs) * SumSeq(xs), den |-> n * (n - 1)]

\* line 130: table_rows.sort(key=lambda x: x[0]), a stable sort
RECURSIVE InsertRow(_, _)
InsertRow(rows, r) ==
    IF rows = <<>> THEN <<r>>
    ELSE IF Head(rows)[1] <= r[1] THEN <<Head(rows)>> \o InsertRow(Tail(rows), r)
         ELSE <<r>> \o rows

RECURSIVE SortRowsFrom(_, _)
SortRowsFrom(done, rest) ==
    IF rest = <<>> THEN done
    ELSE SortRowsFrom(InsertRow(done, Head(rest)), Tail(rest))

SortRowsOmitted(rows) == rows

SortRows(rows) == SortRowsFrom(<<>>, rows)

\* line 98
IsFullResult(pk) == Len(pk) = 2

\* line 142: the truth value of the two lists
HasPeakData(v1, v2) == v1 # <<>> /\ v2 # <<>>

\* The strips' correlation sequences, by the heights of their spikes: no
\* maximum, one, two and more than two.
AggHeights ==
    {<<0, 0, 0, 0, 0, 0>>, <<0, 0, 0, 1, 0, 0>>, <<0, 0, 1, 0, 2, 1>>,
     <<1, 1, 1, 1, 2, 1>>}

AggFileChoices ==
    {Missing} \cup {CorrelationResultsFile(Spikes(h), 0) : h \in AggHeights}

ListingOrders(S) ==
    {f \in [1..Cardinality(S) -> S] : \A a, b \in DOMAIN f : a # b => f[a] # f[b]}

Header == <<"Slice Index", "P1 Index", "P1 Value", "P2 Index", "P2 Value">>
NotEnough == "Not enough peak data to calculate statistics."

AggIdle ==
    /\ ag_files = <<>>
    /\ slice_folders = <<>>
    /\ ag_pos = 0
    /\ peak_indices_1 = <<>>
    /\ peak_indices_2 = <<>>
    /\ peak_values_1 = <<>>
    /\ peak_values_2 = <<>>
    /\ table_rows = <<>>
    /\ peaks_txt = <<>>
    /\ csv = <<>>
    /\ ag_log = {}
    /\ ag_pc = "idle"

\* lines 74-85; folder slice_k is strip index k
AggInit ==
    /\ \E n \in 0..MaxStrips :
          /\ ag_files \in [0..(n - 1) -> AggFileChoices]
          /\ slice_folders \in ListingOrders(0..(n - 1))
          /\ peaks_txt = [k \in 0..(n - 1) |-> Missing]
    /\ ag_pos = 0
    /\ peak_indices_1 = <<>>
    /\ peak_indices_2 = <<>>
    /\ peak_values_1 = <<>>
    /\ peak_values_2 = <<>>
    /\ table_rows = <<>>
    /\ csv = <<>>
    /\ ag_log = {}
    /\ ag_pc = "loop"

\* lines 88-91: no correlation_results.txt in the folder
AggSkipMissing ==
    /\ ag_pc = "loop"
    /\ ag_pos < Len(slice_folders)
    /\ LET k == slice_folders[ag_pos + 1]
       IN  /\ ag_files[k] = Missing
           /\ ag_log' = ag_log \cup {<<"File not found", k>>}
    /\ ag_pos' = ag_pos + 1
    /\ UNCHANGED <<ag_files, slice_folders, peak_indices_1, peak_indices_2,
                   peak_values_1, peak_values_2, table_rows, peaks_txt, csv, ag_pc>>
    /\ UNCHANGED notAgg

\* lines 93-127: one strip
AggStrip ==
    /\ ag_pc = "loop"
    /\ ag_pos < Len(slice_folders)
    /\ LET k == slice_folders[ag_pos + 1]
       IN  /\ ag_files[k] # Missing
           /\ \E c \in {read_correlation_results(ag_files[k].lines)} :
              \E r \in {pcr_find_peaks_in_correlation(c)} :
              LET pk == r.peaks
              IN  /\ IF IsFullResult(pk)
                     THEN /\ peak_indices_1' = Append(peak_indices_1, pk[1])
                          /\ peak_values_1' = Append(peak_values_1, c[pk[1] + 1])
                          /\ peak_indices_2' = Append(peak_indices_2, pk[2])
                          /\ peak_values_2' = Append(peak_values_2, c[pk[2] + 1])
                          /\ table_rows' = Append(table_rows,
                                 <<k, Some(pk[1]), Some(c[pk[1] + 1]),
                                   Some(pk[2]), Some(c[pk[2] + 1])>>)
                     ELSE /\ table_rows' = Append(table_rows, <<k, None, None, None, None>>)
                          /\ UNCHANGED <<peak_indices_1, peak_indices_2,
                                         peak_values_1, peak_values_2>>
                  /\ peaks_txt' = [peaks_txt EXCEPT ![k] = PeaksFile(pk, r.message)]
    /\ ag_pos' = ag_pos + 1
    /\ UNCHANGED <<ag_files, slice_folders, csv, ag_log, ag_pc>>
    /\ UNCHANGED notAgg

\* lines 129-154: sort, write the table, then the statistics or the warning
AggReport ==
    /\ ag_pc = "loop"
    /\ ag_pos >= Len(slice_folders)
    /\ table_rows' = SortRows(table_rows)
    /\ LET table == <<Header>> \o table_rows'
           s == <<stdev(peak_values_1), stdev(peak_values_2),
                  stdev(peak_indices_1), stdev(peak_indices_2)>>
       IN  IF HasPeakData(peak_values_1, peak_values_2)
           THEN IF \E m \in 1..4 : s[m].raises
                THEN /\ csv' = table
                     /\ ag_pc' = "raised"
                     /\ UNCHANGED ag_log
                ELSE /\ csv' = table \o
                         << <<>>, <<"Statistics">>,
                            <<"Standard Deviation of P1 Values", s[1]>>,
                            <<"Standard Deviation of P1 Indices", s[3]>>,
                            <<"Standard Deviation of P2 Values", s[2]>>,
                            <<"Standard Deviation of P2 Indices", s[4]>> >>
                     /\ ag_pc' = "done"
                     /\ UNCHANGED ag_log
           ELSE /\ csv' = table
                /\ ag_log' = ag_log \cup {<<NotEnough>>}
                /\ ag_pc' = "done"
    /\ UNCHANGED <<ag_files, slice_folders, ag_pos, peak_indices_1, peak_indices_2,
                   peak_values_1, peak_values_2, peaks_txt>>
    /\ UNCHANGED notAgg

-----------------------------------------------------------------------------
(* overlay.py *)

\* lines 16-17 of read_shift_from_json
read_shift_from_json(num_keys) == num_keys \div 2

\* str.strip(chars)
RECURSIVE LStrip(_, _)
LStrip(t, chars) ==
    IF t # <<>> /\ Head(t) \in chars THEN LStrip(Tail(t), chars) ELSE t

RECURSIVE RStrip(_, _)
RStrip(t, chars) ==
    IF t # <<>> /\ t[Len(t)] \in chars THEN RStrip(SubSeq(t, 1, Len(t) - 1), chars)
    ELSE t

Strip(t, chars) == RStrip(LStrip(t, chars), chars)

\* str.split(", "): "" splits into [""]
RECURSIVE SplitCommaSpace(_, _)
SplitCommaSpace(t, cur) ==
    IF t = <<>> THEN <<cur>>
    ELSE IF Len(t) >= 2 /\ t[1] = "," /\ t[2] = " "
         THEN <<cur>> \o SplitCommaSpace(SubSeq(t, 3, Len(t)), <<>>)
         ELSE SplitCommaSpace(Tail(t), Append(cur, Head(t)))

DigitValue(ch) == CHOOSE d \in 0..9 : Digits(d) = <<ch>>

\* int(x) for a token of the peaks line: a ValueError unless it is a
\* non-empty run of digits (the writer puts no sign or blank into a token).
IntRaises(tok) == tok = <<>> \/ \E k \in DOMAIN tok : tok[k] \notin DigitChars

RECURSIVE IntValue(_)
IntValue(tok) ==
    IF tok = <<>> THEN 0
    ELSE 10 * IntValue(SubSeq(tok, 1, Len(tok) - 1)) + DigitValue(tok[Len(tok)])

\* lines 53-55: [int(x) for x in line.split(": ")[1].strip("[]\n").split(", ")]
ParsePeakIndices(field) ==
    LET toks == SplitCommaSpace(Strip(field, {"[", "]", "\n"}), <<>>)
    IN  IF \E k \in DOMAIN toks : IntRaises(toks[k])
        THEN [raises |-> TRUE, value |-> <<>>]
        ELSE [raises |-> FALSE, value |-> [k \in DOMAIN toks |-> IntValue(toks[k])]]

\* lines 48-56: the first line starting with "Peaks at indices" is parsed;
\* with no such line peak_indices stays [].
RECURSIVE ReadPeakIndices(_)
ReadPeakIndices(lines) ==
    IF lines = <<>> THEN [raises |-> FALSE, value |-> <<>>]
    ELSE IF Head(lines).head = "Peaks at indices"
         THEN ParsePeakIndices(Head(lines).fields[1])
         ELSE ReadPeakIndices(Tail(lines))

\* line 58
TooFew(peak_indices) == Len(peak_indices) < 2

\* line 72
InCanvasInclusive(x, width) == 0 <= x /\ x <= width

InCanvas(x, width) == 0 <= x /\ x < width

NoOverlay == [saved |-> FALSE, lines |-> {}]

\* The peaks.txt files the detector stage leaves behind: written by
\* process_correlation_results, or by process_folder when only it has run.
DetectorResults ==
    {pcr_find_peaks_in_correlation(Spikes(h)) : h \in AggHeights}
    \cup {ps_find_peaks_in_correlation(Spikes(h)) : h \in AggHeights}

OvFileChoices == {Missing} \cup {PeaksFile(r.peaks, r.message) : r \in DetectorResults}

OvIdle ==
    /\ ov_num_keys = 0
    /\ ov_width = 0
    /\ ov_peaks_files = <<>>
    /\ slice_files = <<>>
    /\ ov_pos = 0
    /\ shift = 0
    /\ overlays = <<>>
    /\ ov_log = {}
    /\ ov_pc = "idle"

\* lines 23-29; slice_k.bmp is strip index k, and below ten strips the sorted
\* file names are in index order.  A strip is as wide as its correlation
\* sequence is long.
OvInit ==
    /\ ov_num_keys \in 0..MaxRefLen
    /\ ov_width = CorrLen
    /\ \E n \in 0..MaxStrips :
          /\ ov_peaks_files \in [0..(n - 1) -> OvFileChoices]
          /\ slice_files = [m \in 1..n |-> m - 1]
          /\ overlays = [k \in 0..(n - 1) |-> NoOverlay]
    /\ ov_pos = 0
    /\ shift = 0
    /\ ov_log = {}
    /\ ov_pc = "start"

\* line 30
OvReadShift ==
    /\ ov_pc = "start"
    /\ shift' = read_shift_from_json(ov_num_keys)
    /\ ov_pc' = "loop"
    /\ UNCHANGED <<ov_num_keys, ov_width, ov_peaks_files, slice_files, ov_pos,
                   overlays, ov_log>>
    /\ UNCHANGED notOv

\* lines 43-46: no peaks.txt
OvMissingPeaks ==
    /\ ov_pc = "loop"
    /\ ov_pos < Len(slice_files)
    /\ LET k == slice_files[ov_pos + 1]
       IN  /\ ~ov_peaks_files[k].exists
           /\ ov_log' = ov_log \cup {<<"Peaks file not found", k>>}
    /\ ov_pos' = ov_pos + 1
    /\ UNCHANGED <<ov_num_keys, ov_width, ov_peaks_files, slice_files, shift,
                   overlays, ov_pc>>
    /\ UNCHANGED notOv

\* lines 48-55: int() raises ValueError; nothing catches it
OvParseRaises ==
    /\ ov_pc = "loop"
    /\ ov_pos < Len(slice_files)
    /\ LET k == slice_files[ov_pos + 1]
       IN  /\ ov_peaks_files[k].exists
           /\ ReadPeakIndices(ov_peaks_files[k].lines).raises
    /\ ov_pc' = "raised"
    /\ UNCHANGED <<ov_num_keys, ov_width, ov_peaks_files, slice_files, ov_pos,
                   shift, overlays, ov_log>>
    /\ UNCHANGED notOv

\* lines 58-60
OvSkipFewPeaks ==
    /\ ov_pc = "loop"
    /\ ov_pos < Len(slice_files)
    /\ LET k == slice_files[ov_pos + 1]
           r == ReadPeakIndices(ov_peaks_files[k].lines)
       IN  /\ ov_peaks_files[k].exists
           /\ ~r.raises
           /\ TooFew(r.value)
           /\ ov_log' = ov_log \cup {<<"Not enough peaks found", k>>}
    /\ ov_pos' = ov_pos + 1
    /\ UNCHANGED <<ov_num_keys, ov_width, ov_peaks_files, slice_files, shift,
                   overlays, ov_pc>>
    /\ UNCHANGED notOv

\* lines 62-81
OvDraw ==
    /\ ov_pc = "loop"
    /\ ov_pos < Len(slice_files)
    /\ LET k == slice_files[ov_pos + 1]
           r == ReadPeakIndices(ov_peaks_files[k].lines)
       IN  /\ ov_peaks_files[k].exists
           /\ ~r.raises
           /\ ~TooFew(r.value)
           /\ overlays' = [overlays EXCEPT ![k] =
                  [saved |-> TRUE,
                   lines |-> {r.value[m] + shift :
                                m \in {n \in DOMAIN r.value :
                                          InCanvas(r.value[n] + shift, ov_width)}}]]
    /\ ov_pos' = ov_pos + 1
    /\ UNCHANGED <<ov_num_keys, ov_width, ov_peaks_files, slice_files, shift,
                   ov_log, ov_pc>>
    /\ UNCHANGED notOv

\* the loop of line 32 runs out
OvDone ==
    /\ ov_pc = "loop"
    /\ ov_pos >= Len(slice_files)
    /\ ov_pc' = "done"
    /\ UNCHANGED <<ov_num_keys, ov_width, ov_peaks_files, slice_files, ov_pos,
                   shift, overlays, ov_log>>
    /\ UNCHANGED notOv

-----------------------------------------------------------------------------
(* validate_and_process_json and process_folder, process_slices.py lines   *)
(* 52-58 and 117-208.                                                      *)

\* str.isdigit(): at least one character, and every character a digit.
\* Python counts the Unicode digits in, such as the superscript two.
SuperscriptTwo == "superscript two"

isdigit(key) ==
    key # <<>> /\ \A k \in DOMAIN key : key[k] \in DigitChars \cup {SuperscriptTwo}

\* isinstance(value, (int, float)): bool is a subclass of int.
IsIntOrFloat(value) == value.type \in {"int", "float", "bool"}

\* line 56
EntryInvalid(entry) == ~isdigit(entry.key) \/ ~IsIntOrFloat(entry.value)

\* JSON values after json.load, one of each Python type.
JsonValues ==
    {[type |-> "int", v |-> "3"], [type |-> "float", v |-> "2.5"],
     [type |-> "bool", v |-> "True"], [type |-> "str", v |-> "'3'"],
     [type |-> "NoneType", v |-> "None"], [type |-> "list", v |-> "[3]"],
     [type |-> "dict", v |-> "{}"]}

JsonKeys ==
    {<<"0">>, <<"1", "2">>, <<"a">>, <<"1", "a">>, <<>>, <<SuperscriptTwo>>}

JsonEntries == {[key |-> k, value |-> v] : k \in JsonKeys, v \in JsonValues}

\* A mapping's keys are distinct.
JsonMappings ==
    {d \in SeqsUpTo(JsonEntries, MaxEntries) :
        \A a, b \in DOMAIN d : a # b => d[a].key # d[b].key}

NoData == [returned |-> FALSE, data |-> <<>>]

\* the files process_folder writes for one strip, lines 133-208
StripOutputs ==
    {"column_averages.txt", "column_averages.png", "correlation_references.json",
     "correlation_references_averages.txt", "column_averages_average.txt",
     "correlation_results.txt", "peaks.txt", "sample_correlation_calculation.txt"}

RefIdle ==
    /\ ref_data = <<>>
    /\ ref_pos = 0
    /\ correlation_data = NoData
    /\ pf_files = 0
    /\ pf_done = 0
    /\ pf_outputs = {}
    /\ pf_pc = "idle"

\* lines 118-122, up to the call of validate_and_process_json and its json.load
RefInit ==
    /\ ref_data \in JsonMappings
    /\ ref_pos = 0
    /\ correlation_data = NoData
    /\ pf_files \in 0..MaxStrips
    /\ pf_done = 0
    /\ pf_outputs = {}
    /\ pf_pc = "validate"

\* lines 55-56: an item passes the check
RefPassEntry ==
    /\ pf_pc = "validate"
    /\ ref_pos < Len(ref_data)
    /\ ~EntryInvalid(ref_data[ref_pos + 1])
    /\ ref_pos' = ref_pos + 1
    /\ UNCHANGED <<ref_data, correlation_data, pf_files, pf_done, pf_outputs, pf_pc>>
    /\ UNCHANGED notRef

\* line 57: raise ValueError, which process_folder lets through
RefRaise ==
    /\ pf_pc = "validate"
    /\ ref_pos < Len(ref_data)
    /\ EntryInvalid(ref_data[ref_pos + 1])
    /\ pf_pc' = "raised"
    /\ UNCHANGED <<ref_data, ref_pos, correlation_data, pf_files, pf_done, pf_outputs>>
    /\ UNCHANGED notRef

\* line 58, then lines 122-123
RefReturn ==
    /\ pf_pc = "validate"
    /\ ref_pos >= Len(ref_data)
    /\ correlation_data' = [returned |-> TRUE, data |-> ref_data]
    /\ pf_pc' = "strips"
    /\ UNCHANGED <<ref_data, ref_pos, pf_files, pf_done, pf_outputs>>
    /\ UNCHANGED notRef

\* lines 125-208: one strip, with every file it writes
PfStrip ==
    /\ pf_pc = "strips"
    /\ pf_done < pf_files
    /\ pf_outputs' = pf_outputs \cup {<<pf_done, name>> : name \in StripOutputs}
    /\ pf_done' = pf_done + 1
    /\ UNCHANGED <<ref_data, ref_pos, correlation_data, pf_files, pf_pc>>
    /\ UNCHANGED notRef

PfDone ==
    /\ pf_pc = "strips"
    /\ pf_done >= pf_files
    /\ pf_pc' = "done"
    /\ UNCHANGED <<ref_data, ref_pos, correlation_data, pf_files, pf_done, pf_outputs>>
    /\ UNCHANGED notRef

-----------------------------------------------------------------------------
(* slice_image (slice_image.py lines 13-41).                               *)

\* line 24, with the comparison turned into >=
RemainderTooShortInclusive(t, h, H) == t + h >= H

\* line 24: the rows left from t on are fewer than a strip
RemainderTooShort(t, h, H) == t + h > H

\* lines 30-31: the crop box (left, upper, right, lower)
Box(t, h, W) == [left |-> 0, upper |-> t, right |-> W, lower |-> t + h]

NoSliceReturn == [slice_count |-> -1, total_pixels |-> -1]

SliceIdle ==
    /\ img_width = 0
    /\ img_height = 0
    /\ height = 0
    /\ top = 0
    /\ slice_count = 0
    /\ slices = <<>>
    /\ sl_pc = "idle"
    /\ sl_ret = NoSliceReturn

\* lines 15-23: the image is open, the counter is 0 and range() starts at 0.
\* An opened image has at least one row and one column; the strip height is
\* positive (range() rejects a step of 0).
SliceInit ==
    /\ img_width \in 1..MaxImgWidth
    /\ img_height \in 1..MaxImgHeight
    /\ height \in 1..MaxSliceHeight
    /\ top = 0
    /\ slice_count = 0
    /\ slices = <<>>
    /\ sl_pc = "loop"
    /\ sl_ret = NoSliceReturn

\* lines 23-39: one pass of the loop that saves a strip
SliceStrip ==
    /\ sl_pc = "loop"
    /\ top < img_height
    /\ ~RemainderTooShort(top, height, img_height)
    /\ slices' = (slice_count :> Box(top, height, img_width)) @@ slices
    /\ slice_count' = slice_count + 1
    /\ top' = top + height
    /\ UNCHANGED <<img_width, img_height, height, sl_pc, sl_ret>>
    /\ UNCHANGED notSlice

\* lines 24-28 and 41: the break, then the return
SliceBreak ==
    /\ sl_pc = "loop"
    /\ top < img_height
    /\ RemainderTooShort(top, height, img_height)
    /\ sl_pc' = "returned"
    /\ sl_ret' = [slice_count |-> slice_count, total_pixels |-> img_width * img_height]
    /\ UNCHANGED <<img_width, img_height, height, top, slice_count, slices>>
    /\ UNCHANGED notSlice

\* lines 23 and 41: range() is exhausted, then the return
SliceReturn ==
    /\ sl_pc = "loop"
    /\ top >= img_height
    /\ sl_pc' = "returned"
    /\ sl_ret' = [slice_count |-> slice_count, total_pixels |-> img_width * img_height]
    /\ UNCHANGED <<img_width, img_height, height, top, slice_count, slices>>
    /\ UNCHANGED notSlice

-----------------------------------------------------------------------------
(* Specifications: one per script stage, each over its own bounded inputs, *)
(* and Spec, a run of any one of them.                                     *)
InitCorr == CorrInit /\ PeakIdle /\ AggIdle /\ OvIdle /\ RefIdle /\ SliceIdle
NextCorr == CorrOffset \/ CorrReturn
SpecCorr == InitCorr /\ [][NextCorr]_vars

InitPeaks == PeakInit /\ CorrIdle /\ AggIdle /\ OvIdle /\ RefIdle /\ SliceIdle
NextPeaks == PeakSmooth \/ PeakFind \/ PeakSort \/ PeakSelect_ps \/ PeakSelect_pcr
SpecPeaks == InitPeaks /\ [][NextPeaks]_vars

InitAgg == AggInit /\ CorrIdle /\ PeakIdle /\ OvIdle /\ RefIdle /\ SliceIdle
NextAgg == AggSkipMissing \/ AggStrip \/ AggReport
SpecAgg == InitAgg /\ [][NextAgg]_vars

InitOverlay == OvInit /\ CorrIdle /\ PeakIdle /\ AggIdle /\ RefIdle /\ SliceIdle
NextOverlay ==
    OvReadShift \/ OvMissingPeaks \/ OvParseRaises \/ OvSkipFewPeaks \/ OvDraw \/ OvDone
SpecOverlay == InitOverlay /\ [][NextOverlay]_vars

InitRef == RefInit /\ CorrIdle /\ PeakIdle /\ AggIdle /\ OvIdle /\ SliceIdle
NextRef == RefPassEntry \/ RefRaise \/ RefReturn \/ PfStrip \/ PfDone
SpecRef == InitRef /\ [][NextRef]_vars

\* slice_image is a sequential loop: a step that can be taken is taken.
InitSlice == SliceInit /\ CorrIdle /\ PeakIdle /\ AggIdle /\ OvIdle /\ RefIdle
NextSlice == SliceStrip \/ SliceBreak \/ SliceReturn
SpecSlice == InitSlice /\ [][NextSlice]_vars /\ WF_vars(NextSlice)

Init == InitCorr \/ InitPeaks \/ InitAgg \/ InitOverlay \/ InitRef \/ InitSlice
Next == NextCorr \/ NextPeaks \/ NextAgg \/ NextOverlay \/ NextRef \/ NextSlice
Spec == Init /\ [][Next]_vars

-----------------------------------------------------------------------------
(* C1: when calculate_correlation_results returns, the sequence has exactly *)
(* W entries and entry i is the N-term sum of (R[j] - mean R) * (V(i+j) -   *)
(* mean P), where V(k) is P[k] inside the profile and 0 beyond it, and     *)
(* mean P is the mean of the whole original profile (all scaled by N*W).   *)
PaddedV(k) == IF k < Len(column_averages) THEN column_averages[k + 1] ELSE 0

RECURSIVE SumOver(_, _)
SumOver(f, S) ==
    IF S = {} THEN 0
    ELSE LET x == CHOOSE y \in S : TRUE IN f[x] + SumOver(f, S \ {x})

ClosedFormScore(i) ==
    LET N == Len(json_values)
        W == Len(column_averages)
        sumR == SumOver([j \in 1..N |-> json_values[j]], 1..N)
        sumP == SumOver([k \in 1..W |-> column_averages[k]], 1..W)
        term == [j \in 0..(N - 1) |->
                    (N * json_values[j + 1] - sumR) * (W * PaddedV(i + j) - sumP)]
    IN  SumOver(term, 0..(N - 1))

C1_CorrelationDefinition ==
    corr_pc = "returned" =>
        /\ Len(corr_ret.results) = Len(column_averages)
        /\ \A i \in 0..(Len(column_averages) - 1) :
               corr_ret.results[i + 1] = ClosedFormScore(i)

\* W = 5, N = 3: the last offset reads two positions beyond the profile and
\* the substituted zeros change the score.
C1_Witness ==
    /\ corr_pc = "returned"
    /\ Len(column_averages) = 5
    /\ Len(json_values) = 3
    /\ corr_ret.results[5] # 0
    /\ SumSeq(column_averages) # 0

-----------------------------------------------------------------------------
(* C2: every copy of find_peaks_in_correlation returns at most 2 indices in *)
(* ascending index order; with more than 2 maxima detected it returns the  *)
(* 2 highest re-sorted by index, and the message says more than 2 were     *)
(* found and lists every candidate.                                        *)
IsAscending(s) == \A a, b \in DOMAIN s : a < b => s[a] < s[b]

SeqSet(s) == {s[k] : k \in DOMAIN s}

C2_PeakSetAscending ==
    pk_pc = "returned" =>
        /\ Len(pk_ret.peaks) <= 2
        /\ IsAscending(pk_ret.peaks)
        /\ Len(peaks) > 2 =>
              /\ SeqSet(pk_ret.peaks) = {sorted_peaks[1], sorted_peaks[2]}
              /\ pk_ret.message.text = MoreThanTwo
              /\ SeqSet(pk_ret.message.listed) = SeqSet(peaks)

-----------------------------------------------------------------------------
AggFinished == ag_pc \in {"done", "raised"}

StatisticsWritten == Len(csv) > 1 + Len(table_rows)

(* C3: the statistics are written if and only if each of the four running  *)
(* collections holds at least 2 elements; with fewer, the run does not     *)
(* raise, logs the insufficient-data warning and still writes the header   *)
(* and every table row.                                                    *)
EnoughForStatistics ==
    /\ Len(peak_indices_1) >= 2
    /\ Len(peak_indices_2) >= 2
    /\ Len(peak_values_1) >= 2
    /\ Len(peak_values_2) >= 2

C3_StatisticsIffTwoStrips ==
    AggFinished =>
        /\ StatisticsWritten <=> EnoughForStatistics
        /\ ~EnoughForStatistics =>
              /\ ag_pc = "done"
              /\ <<NotEnough>> \in ag_log
              /\ SubSeq(csv, 1, 1 + Len(table_rows)) = <<Header>> \o table_rows

-----------------------------------------------------------------------------
\* The number of indices written on a peaks.txt "Peaks at indices" line.
WrittenCount(field) ==
    LET inner == Strip(field, {"[", "]", "\n"})
    IN  IF inner = <<>> THEN 0
        ELSE 1 + Cardinality({k \in DOMAIN inner : inner[k] = ","})

PeaksFieldOf(file) == file.lines[4].fields[1]

PeaksField(k) == PeaksFieldOf(ov_peaks_files[k])

\* The m-th slice file has been taken up by the loop.
OvReached(m) == m <= ov_pos \/ (m = ov_pos + 1 /\ ov_pc = "raised")

(* C4: a strip whose peaks.txt holds fewer than 2 peaks (0 or 1) is        *)
(* skipped with a warning only: no overlay is saved for it, no exception   *)
(* is raised, and the loop goes on to the next strip.                      *)
C4_FewPeaksSkipped ==
    \A m \in DOMAIN slice_files :
        LET k == slice_files[m]
        IN  (/\ OvReached(m)
             /\ ov_peaks_files[k].exists
             /\ WrittenCount(PeaksField(k)) < 2)
            => /\ ~(m = ov_pos + 1 /\ ov_pc = "raised")
               /\ <<"Not enough peaks found", k>> \in ov_log
               /\ ~overlays[k].saved

-----------------------------------------------------------------------------
(* C5: a failure on one strip never aborts the batch: when the stage       *)
(* stops, it has run to completion and every strip was taken up - drawn,   *)
(* or skipped with its warning logged.                                     *)
OvHandled(k) ==
    \/ overlays[k].saved
    \/ <<"Not enough peaks found", k>> \in ov_log
    \/ <<"Peaks file not found", k>> \in ov_log

C5_BatchNeverAborts ==
    ov_pc \in {"done", "raised"} =>
        /\ ov_pc = "done"
        /\ \A m \in DOMAIN slice_files : OvHandled(slice_files[m])

-----------------------------------------------------------------------------
(* C6: once every folder is handled, the table has exactly one row per     *)
(* folder holding a correlation-results file, in ascending strip index     *)
(* whatever the listing order was; a row's four peak fields are all null   *)
(* exactly when the strip's persisted Peak Set has not exactly 2 entries,   *)
(* a full row carries the Peak Set's indices and the raw values there, and *)
(* the four running collections hold the values of exactly the 2-peak      *)
(* strips.                                                                 *)
StripsWithFile == {k \in DOMAIN ag_files : ag_files[k].exists}

StripSequence(k) == read_correlation_results(ag_files[k].lines)

\* The Peak Set the stage persisted for strip k, read back from its peaks.txt.
PeakSetOf(k) ==
    IF WrittenCount(PeaksFieldOf(peaks_txt[k])) = 0 THEN <<>>
    ELSE ParsePeakIndices(PeaksFieldOf(peaks_txt[k])).value

FullRows == {m \in DOMAIN table_rows : table_rows[m][2] # None}

C6_AggregateTable ==
    AggFinished =>
        /\ Len(table_rows) = Cardinality(StripsWithFile)
        /\ {table_rows[m][1] : m \in DOMAIN table_rows} = StripsWithFile
        /\ \A a, b \in DOMAIN table_rows :
               a < b => table_rows[a][1] < table_rows[b][1]
        /\ SubSeq(csv, 2, 1 + Len(table_rows)) = table_rows
        /\ \A m \in DOMAIN table_rows :
               LET row == table_rows[m]
                   pk == PeakSetOf(row[1])
                   c == StripSequence(row[1])
               IN  IF peaks_txt[row[1]].exists /\ Len(pk) = 2
                   THEN row = <<row[1], Some(pk[1]), Some(c[pk[1] + 1]),
                                Some(pk[2]), Some(c[pk[2] + 1])>>
                   ELSE row = <<row[1], None, None, None, None>>
        /\ Len(peak_indices_1) = Cardinality(FullRows)
        /\ Len(peak_indices_2) = Cardinality(FullRows)
        /\ Len(peak_values_1) = Cardinality(FullRows)
        /\ Len(peak_values_2) = Cardinality(FullRows)
        /\ {<<Some(peak_indices_1[n]), Some(peak_values_1[n]),
              Some(peak_indices_2[n]), Some(peak_values_2[n])>> :
                n \in DOMAIN peak_indices_1}
           = {SubSeq(table_rows[m], 2, 5) : m \in FullRows}

\* Three folders listed out of order: one without a file, one with no peak,
\* one with two peaks.
C6_Witness ==
    /\ AggFinished
    /\ slice_folders = <<2, 0, 1>>
    /\ ~ag_files[1].exists
    /\ Len(table_rows) = 2
    /\ table_rows[1] = <<0, None, None, None, None>>
    /\ PeakSetOf(0) = <<>>
    /\ table_rows[2][1] = 2
    /\ table_rows[2][2] # None

-----------------------------------------------------------------------------
(* C7: a reference mapping with a key that is not all decimal digits, or a  *)
(* value that is not an integer or real number (a string, null, boolean,   *)
(* list, object), fails validation: no vector is returned, and in          *)
(* process_folder no strip is processed and no per-strip file is written.  *)
KeyNotDecimal(key) == \E k \in DOMAIN key : key[k] \notin DigitChars

ValueNotNumber(value) == value.type \notin {"int", "float"}

Malformed(data) ==
    \E k \in DOMAIN data : KeyNotDecimal(data[k].key) \/ ValueNotNumber(data[k].value)

C7_MalformedMappingRejected ==
    Malformed(ref_data) =>
        /\ correlation_data = NoData
        /\ pf_pc \in {"validate", "raised"}
        /\ pf_done = 0
        /\ pf_outputs = {}

-----------------------------------------------------------------------------
(* C8: the detector returns min(number of detected maxima, 2) peaks, all of *)
(* them detected maxima, and the message text follows from that number     *)
(* alone: "Less than 2" for 0 or 1, "Two peaks" for 2, "More than 2" above. *)
Min(a, b) == IF a < b THEN a ELSE b

C8_PeakCountAndStatus ==
    pk_pc = "returned" =>
        /\ Len(pk_ret.peaks) = Min(Len(peaks), 2)
        /\ SeqSet(pk_ret.peaks) \subseteq SeqSet(peaks)
        /\ Cardinality(SeqSet(pk_ret.peaks)) = Len(pk_ret.peaks)
        /\ Len(peaks) < 2 => pk_ret.message.text = LessThanTwo
        /\ Len(peaks) = 2 => pk_ret.message.text = ExactlyTwo
        /\ Len(peaks) > 2 => pk_ret.message.text = MoreThanTwo

\* One maximum detected, one returned: no second peak is made up.
C8_Witness ==
    /\ pk_pc = "returned"
    /\ Len(peaks) = 1
    /\ pk_ret.peaks = peaks
    /\ pk_ret.message.text = LessThanTwo

-----------------------------------------------------------------------------
(* C9: the returned out-of-range count is the number of distinct offsets i  *)
(* in [0, W) with some j in [0, N) such that i + j >= W, and each of those *)
(* offsets still has its entry in the returned sequence.                   *)
OutOfRangeOffsets ==
    {i \in 0..(Len(column_averages) - 1) :
        \E j \in 0..(Len(json_values) - 1) : i + j >= Len(column_averages)}

C9_OutOfRangeCount ==
    corr_pc = "returned" =>
        /\ corr_ret.count = Cardinality(OutOfRangeOffsets)
        /\ OutOfRangeOffsets \subseteq {k - 1 : k \in DOMAIN corr_ret.results}

C9_Witness ==
    /\ corr_pc = "returned"
    /\ Len(column_averages) = 5
    /\ Len(json_values) = 3
    /\ corr_ret.count = 2
    /\ Len(corr_ret.results) = 5

-----------------------------------------------------------------------------
(* C10: the shift is floor(N/2) for a reference mapping of N entries, and  *)
(* for a strip with at least 2 peaks a marker is drawn at column x exactly *)
(* when x = p + shift for a peak p of its Peak Set and 0 <= x < width;     *)
(* the other mapped columns are dropped and the overlay is still saved.    *)
C10_ShiftAndMarkers ==
    /\ ov_pc \in {"loop", "done", "raised"} =>
           /\ 2 * shift <= ov_num_keys
           /\ ov_num_keys < 2 * shift + 2
    /\ \A m \in 1..ov_pos :
           LET k == slice_files[m]
           IN  (ov_peaks_files[k].exists /\ WrittenCount(PeaksField(k)) >= 2) =>
                   LET pk == ParsePeakIndices(PeaksField(k)).value
                   IN  /\ overlays[k].saved
                       /\ \A x \in (-1)..(ov_width + MaxRefLen) :
                              x \in overlays[k].lines <=>
                                  /\ \E n \in DOMAIN pk : x = pk[n] + shift
                                  /\ 0 <= x
                                  /\ x < ov_width
                       /\ overlays[k].lines \subseteq 0..(ov_width - 1)

\* A strip with one peak drawn, shifted, and one mapped off the canvas.
C10_Witness ==
    \E k \in DOMAIN overlays :
        /\ overlays[k].saved
        /\ shift >= 1
        /\ LET pk == ParsePeakIndices(PeaksField(k)).value
           IN  /\ Len(pk) = 2
               /\ \E a, b \in DOMAIN pk :
                     /\ pk[a] + shift \in overlays[k].lines
                     /\ pk[b] + shift >= ov_width
                     /\ pk[b] + shift \notin overlays[k].lines

-----------------------------------------------------------------------------
(* C11: for an image of H rows and a positive strip height h, slice_image  *)
(* terminates, and when it has returned it has written exactly H div h     *)
(* strips, numbered 0 .. (H div h) - 1, strip k covering rows              *)
(* [k*h, (k+1)*h) over the full width; no two strips share a row, none is  *)
(* shorter than h, the last H mod h rows are in no strip, and the returned *)
(* slice_count is the number of strips written.                            *)
RowsOf(k) == slices[k].upper .. (slices[k].lower - 1)

SliceLayout ==
    LET n == img_height \div height
    IN  /\ DOMAIN slices = 0..(n - 1)
        /\ \A k \in DOMAIN slices :
               slices[k] = [left |-> 0, upper |-> k * height,
                            right |-> img_width, lower |-> (k + 1) * height]
        /\ \A k \in DOMAIN slices : Cardinality(RowsOf(k)) = height
        /\ \A a, b \in DOMAIN slices : a # b => RowsOf(a) \cap RowsOf(b) = {}
        /\ \A r \in (img_height - (img_height % height))..(img_height - 1) :
               \A k \in DOMAIN slices : r \notin RowsOf(k)
        /\ sl_ret.slice_count = Cardinality(DOMAIN slices)
        /\ sl_ret.slice_count = n

C11_SliceImage ==
    /\ <>(sl_pc = "returned")
    /\ [](sl_pc = "returned" => SliceLayout)

\* Two strips written and a remainder of rows left over.
C11_Witness ==
    /\ sl_pc = "returned"
    /\ sl_ret.slice_count = 2
    /\ img_height % height # 0
    /\ DOMAIN slices = {0, 1}

=============================================================================
